---------------------------- MODULE Spec2Model ----------------------------
(***************************************************************************)
(* kube-hpa-scale-to-zero (src/main.py): a watcher thread keeps the        *)
(* registry HPAs in step with the HPA objects of one namespace, and a      *)
(* daemon thread periodically scales each tracked HPA's workload to zero   *)
(* or back to one replica according to a custom metric.                    *)
(*                                                                         *)
(* Time is kept relative: window_left is stabilization_end_time - time()   *)
(* (floored at 0) and sleep_left is what remains of the running sleep().   *)
(***************************************************************************)
EXTENDS Integers, Sequences, FiniteSets, TLC

\* ------------------------------------------------------------------ bounds
MaxReplicas == 2
MaxWindow == 2
MaxEvents == 2

\* ------------------------------------------------------- program constants
SYNC_INTERVAL == 10
STABILIZATION_CHECK_INTERVAL == 1

\* ---------------------------------------------------------------- universe
Names == {"a", "b"}
Services == {"svc"}
SupportedKinds == {"Deployment", "StatefulSet"}
MetricValues == {0 - 1, 0, 1, 2}
\* The stabilization windows of the command line: none, or MaxWindow time units.
Windows == {0, MaxWindow}

\* A scale read of a workload that does not exist answers 404.
Absent == -1

\* Workloads that may exist in the cluster, as <<kind, name>>.
Workloads == {<<"Deployment", "a">>, <<"Deployment", "b">>}

\* One element of the autoscaling.alpha.kubernetes.io/metrics annotation.
ObjectMetric(kind, selector) ==
    [type |-> "Object", kind |-> kind, selector |-> selector, name |-> "svc"]
ExternalMetric ==
    [type |-> "External", kind |-> "none", selector |-> FALSE, name |-> "svc"]

AnnValid == <<ObjectMetric("Service", FALSE)>>
AnnTwo == <<ObjectMetric("Service", FALSE), ObjectMetric("Service", FALSE)>>
AnnNone == <<ExternalMetric>>
AnnSelector == <<ObjectMetric("Service", TRUE)>>
AnnPod == <<ObjectMetric("Pod", FALSE)>>

NoHpa == [kind |-> "none"]

\* An HPA object: its metrics annotation and its scaleTargetRef.
Hpa(annotation, kind, target) ==
    [annotation |-> annotation, kind |-> kind, target |-> target]

\* The HPAs of the namespace when the process starts.
Populations ==
    {[n \in Names |-> Hpa(AnnValid, "Deployment", n)],
     [n \in Names |-> IF n = "b" THEN Hpa(AnnValid, "Deployment", "a") ELSE NoHpa],
     [n \in Names |-> IF n = "a" THEN Hpa(AnnValid, "StatefulSet", "a")
                      ELSE Hpa(AnnValid, "Deployment", "b")],
     [n \in Names |-> IF n = "a" THEN Hpa(AnnValid, "Deployment", "a")
                      ELSE Hpa(AnnValid, "DaemonSet", "b")]}
NoPatch == [workload |-> <<"none", "none">>, before |-> Absent, to |-> Absent]

VARIABLES
    \* the cluster
    hpa_objects,        \* name -> HPA object, or NoHpa
    replicas,           \* workload -> replica count, or Absent
    metric,             \* service -> value of the custom metric
    \* the process
    alive,              \* FALSE once the process has exited
    exit_code,
    exit_cause,
    scale_up_stabilization_window,
    scale_down_stabilization_window,
    HPAs,               \* the registry: a dict, kept in insertion order
    \* watch_hpa (main thread)
    wpc,
    stream,             \* events of the open watch not yet delivered
    \* watch_metrics._watch (daemon thread)
    rpc,
    snapshot,           \* what is left of list(HPAs.values())
    hpa,                \* the HPA under evaluation
    needed_replicas,    \* update_target's needed_replicas before the patch
    window_left,
    sleep_left,
    \* history
    ev,                 \* what the running evaluation has done so far
    forgotten,          \* names whose last processed event read not-found
    stream_phase        \* first | gone | reopened | resumed | failed

cluster_vars == <<hpa_objects, replicas, metric>>
process_vars == <<alive, exit_code, exit_cause, scale_up_stabilization_window,
                  scale_down_stabilization_window, HPAs>>
watch_vars == <<wpc, stream>>
loop_vars == <<rpc, snapshot, hpa, needed_replicas, window_left, sleep_left>>
history_vars == <<ev, forgotten, stream_phase>>
vars == <<cluster_vars, process_vars, watch_vars, loop_vars, history_vars>>

\* ------------------------------------------------------------------ helpers
Min(x, y) == IF x < y THEN x ELSE y

Bool(n) == n # 0

Keys(registry) == {registry[i].name : i \in 1..Len(registry)}

\* dict[key]
Lookup(registry, key) ==
    registry[CHOOSE i \in 1..Len(registry) : registry[i].name = key]

\* dict[key] = value: in place when the key is there, appended otherwise.
DictPut(registry, value) ==
    IF value.name \in Keys(registry)
    THEN [i \in 1..Len(registry) |->
            IF registry[i].name = value.name THEN value ELSE registry[i]]
    ELSE Append(registry, value)

\* A pop that leaves the dict as it is.
DictKeep(registry, key) == registry

\* dict.pop(key, None)
DictPop(registry, key) == SelectSeq(registry, LAMBDA r : r.name # key)

\* The history of one evaluation (one call of update_target).
NewEvaluation ==
    [intent |-> "none",      \* none | up | down: what scaling_is_needed detected
     window |-> 0,           \* the stabilization window it selected
     since |-> 0,            \* time units since the intent was detected
     eq_seen |-> FALSE,      \* bool(current) = bool(desired) held during the wait
     polls |-> 0,            \* 1 once the debounce wait has polled
     poll_eq |-> FALSE,      \* a poll read bool(current) = bool(desired)
     raised |-> "none",      \* the exception that ended it
     status |-> 200,         \* the status of the API call that failed
     call |-> "none",        \* the API call that failed: scale | metric | patch
     where |-> "none",       \* the call that failed: first | poll | reread | again |
                             \* patch | last
     outcome |-> "idle",     \* running | scaled | stable | canceled | skipped |
                             \* unavailable | fatal
     patch |-> NoPatch]


\* ---------------------------------------------------------------- the start
Start(objects, value, ups, downs) ==
    /\ hpa_objects = objects
    /\ replicas = [w \in Workloads |-> 1]
    /\ metric = [s \in Services |-> value]
    /\ alive = TRUE
    /\ exit_code = 0
    /\ exit_cause = "none"
    /\ scale_up_stabilization_window \in ups
    /\ scale_down_stabilization_window \in downs
    /\ HPAs = <<>>
    /\ wpc = "open"
    /\ stream = <<>>
    /\ rpc = "loop"
    /\ snapshot = <<>>
    /\ hpa = NoHpa
    /\ needed_replicas = 0
    /\ window_left = 0
    /\ sleep_left = 0
    /\ ev = NewEvaluation
    /\ forgotten = {}
    /\ stream_phase = "first"

\* The process ends (os._exit(1), or the main thread dies of an uncaught
\* exception and takes the daemon thread with it): its memory is gone.
Exit(cause) ==
    /\ alive' = FALSE
    /\ exit_code' = 1
    /\ exit_cause' = cause
    /\ HPAs' = <<>>
    /\ wpc' = "exited"
    /\ stream' = <<>>
    /\ rpc' = "exited"
    /\ snapshot' = <<>>
    /\ hpa' = NoHpa
    /\ needed_replicas' = 0
    /\ window_left' = 0
    /\ sleep_left' = 0
    /\ forgotten' = {}
    /\ scale_up_stabilization_window' = 0
    /\ scale_down_stabilization_window' = 0

\* ------------------------------------------------------------------ watcher
\* build_metric_value_path: the first element of type Object, which must
\* carry no selector and target a Service.
build_metric_value_path(annotation) ==
    LET objects == SelectSeq(annotation, LAMBDA m : m.type = "Object") IN
    IF objects = <<>> THEN [ok |-> FALSE, error |-> "StopIteration"]
    ELSE IF Head(objects).selector THEN [ok |-> FALSE, error |-> "AssertionError"]
    ELSE IF Head(objects).kind # "Service" THEN [ok |-> FALSE, error |-> "AssertionError"]
    ELSE [ok |-> TRUE, path |-> Head(objects).name]

\* The HPA record update_hpa stores.
TrackedHPA(name, object, path) ==
    [name |-> name,
     metric_value_path |-> path,
     target_kind |-> object.kind,
     target_name |-> object.target,
     scale_up_stabilization_window |-> scale_up_stabilization_window,
     scale_down_stabilization_window |-> scale_down_stabilization_window]

\* An except clause that swallows 404 in place of 410.
IsGoneAs404(status) == status = 404

\* watch_hpa's except clause: only 410 is swallowed.
IsGone(status) == status = 410

\* update_hpa's except clause: only 404 is swallowed.
IsNotFound(status) == status = 404

\* The list a new watch starts with: an ADDED event for every HPA there is,
\* in the order of their names.
Listing ==
    LET there == SelectSeq(<<"a", "b">>, LAMBDA n : hpa_objects[n] # NoHpa) IN
    [i \in 1..Len(there) |-> [type |-> "ADDED", name |-> there[i]]]

\* w.stream(list_namespaced_horizontal_pod_autoscaler, ...): a new watch
\* starts with an ADDED event for every HPA there is.
WatchOpen(status) ==
    /\ alive /\ wpc = "open"
    /\ IF status = 200
       THEN /\ wpc' = "stream"
            /\ stream' = Listing
            /\ stream_phase' = IF stream_phase = "gone" THEN "reopened" ELSE stream_phase
            /\ UNCHANGED <<cluster_vars, process_vars, loop_vars, ev, forgotten>>
       ELSE IF IsGone(status)
       THEN /\ stream_phase' = "gone"
            /\ UNCHANGED <<cluster_vars, process_vars, watch_vars, loop_vars, ev,
                           forgotten>>
       ELSE /\ Exit("stream_error")
            /\ stream_phase' = "failed"
            /\ ev' = NewEvaluation
            /\ UNCHANGED cluster_vars

\* The stream raises ApiException(status) while it is iterated.
WatchStreamError(status) ==
    /\ alive /\ wpc = "stream"
    /\ stream_phase' = IF status = 410 THEN "gone" ELSE "failed"
    /\ IF IsGone(status)
       THEN /\ wpc' = "open"
            /\ stream' = <<>>
            /\ UNCHANGED <<cluster_vars, process_vars, loop_vars, ev, forgotten>>
       ELSE /\ Exit("stream_error")
            /\ ev' = NewEvaluation
            /\ UNCHANGED cluster_vars

\* update_hpa for the next event of the stream: the HPA is read again.
WatchEvent(status) ==
    /\ alive /\ wpc = "stream" /\ stream # <<>>
    /\ LET event == Head(stream)
           name == event.name
           object == hpa_objects[name]
           read == IF status # 200 THEN status
                   ELSE IF object = NoHpa THEN 404 ELSE 200
           built == IF read = 200 THEN build_metric_value_path(object.annotation)
                    ELSE [ok |-> FALSE, error |-> "none"]
           phase == IF stream_phase = "reopened" THEN "resumed"
                    ELSE IF stream_phase = "resumed" THEN "first"
                    ELSE stream_phase
       IN
       IF read = 200 /\ built.ok
       THEN /\ HPAs' = DictPut(HPAs, TrackedHPA(name, object, built.path))
            /\ stream' = Tail(stream)
            /\ forgotten' = forgotten \ {name}
            /\ stream_phase' = phase
            /\ UNCHANGED <<cluster_vars, alive, exit_code, exit_cause,
                           scale_up_stabilization_window,
                           scale_down_stabilization_window, wpc, loop_vars, ev>>
       ELSE IF read = 200
       THEN \* build_metric_value_path logs and raises again: nothing catches it
            /\ Exit(built.error)
            /\ ev' = NewEvaluation
            /\ stream_phase' = phase
            /\ UNCHANGED cluster_vars
       ELSE IF IsNotFound(read)
       THEN /\ HPAs' = DictPop(HPAs, name)
            /\ stream' = Tail(stream)
            /\ forgotten' = forgotten \cup {name}
            /\ stream_phase' = phase
            /\ UNCHANGED <<cluster_vars, alive, exit_code, exit_cause,
                           scale_up_stabilization_window,
                           scale_down_stabilization_window, wpc, loop_vars, ev>>
       ELSE IF IsGone(read)
       THEN \* raised inside watch_hpa's try: the same except clause
            /\ wpc' = "open"
            /\ stream' = <<>>
            /\ stream_phase' = "gone"
            /\ UNCHANGED <<cluster_vars, process_vars, loop_vars, ev, forgotten>>
       ELSE /\ Exit("hpa_read_error")
            /\ ev' = NewEvaluation
            /\ stream_phase' = phase
            /\ UNCHANGED cluster_vars


\* -------------------------------------------------------- the environment
\* What the watch delivers for a change of an HPA object: nothing when no
\* stream is open.
Deliver(type, name) ==
    IF alive /\ wpc = "stream"
    THEN /\ Len(stream) < MaxEvents
         /\ stream' = Append(stream, [type |-> type, name |-> name])
         /\ wpc' = wpc
    ELSE UNCHANGED watch_vars

\* The workload get_replicas reads for a tracked HPA: read_scale is chosen by
\* target_kind and called with name=hpa.name.
ReadWorkload(h) == <<h.target_kind, h.name>>

Scale(w) == IF w \in Workloads THEN replicas[w] ELSE Absent

\* bool(current_replicas) == bool(needed_replicas) on the cluster as it is.
BoolEqNow(h, reps, met) ==
    LET current == IF ReadWorkload(h) \in Workloads THEN reps[ReadWorkload(h)] ELSE Absent IN
    /\ current # Absent
    /\ Bool(current) = Bool(Min(met[h.metric_value_path], 1))

\* The history of a change of the cluster during a debounce wait.
Observe(reps, met) ==
    ev' = IF rpc \in {"wait", "wait_sleep"} /\ window_left > 0 /\ BoolEqNow(hpa, reps, met)
          THEN [ev EXCEPT !.eq_seen = TRUE]
          ELSE ev

HpaApply(name, object) ==
    /\ alive
    /\ hpa_objects[name] # object
    /\ hpa_objects' = [hpa_objects EXCEPT ![name] = object]
    /\ Deliver(IF hpa_objects[name] = NoHpa THEN "ADDED" ELSE "MODIFIED", name)
    /\ UNCHANGED <<replicas, metric, process_vars, loop_vars, history_vars>>

HpaDelete(name) ==
    /\ alive
    /\ hpa_objects[name] # NoHpa
    /\ hpa_objects' = [hpa_objects EXCEPT ![name] = NoHpa]
    /\ Deliver("DELETED", name)
    /\ UNCHANGED <<replicas, metric, process_vars, loop_vars, history_vars>>

\* The native autoscaler, or a user, scales, creates or deletes a workload.
WorkloadSet(w, n) ==
    /\ alive
    /\ replicas[w] # n
    /\ replicas' = [replicas EXCEPT ![w] = n]
    /\ Observe(replicas', metric)
    /\ UNCHANGED <<hpa_objects, metric, process_vars, watch_vars, loop_vars,
                   forgotten, stream_phase>>

MetricSet(s, v) ==
    /\ alive
    /\ metric[s] # v
    /\ metric' = [metric EXCEPT ![s] = v]
    /\ Observe(replicas, metric')
    /\ UNCHANGED <<hpa_objects, replicas, process_vars, watch_vars, loop_vars,
                   forgotten, stream_phase>>

\* Time passes: one time unit of a stabilization wait, or what is left of
\* sleep(SYNC_INTERVAL), during which the loop looks at nothing.
Tick ==
    /\ alive
    /\ sleep_left > 0 \/ window_left > 0
    /\ sleep_left' = IF sleep_left = 0 \/ rpc = "sleep" THEN 0 ELSE sleep_left - 1
    /\ window_left' = IF window_left > 0 THEN window_left - 1 ELSE 0
    /\ ev' = IF rpc \in {"wait", "wait_sleep"} /\ ev.since < ev.window
             THEN [ev EXCEPT !.since = ev.since + 1] ELSE ev
    /\ UNCHANGED <<cluster_vars, process_vars, watch_vars, rpc, snapshot, hpa,
                   needed_replicas, forgotten, stream_phase>>


\* ------------------------------------------------------- the scaling loop
\* get_needed_replicas: min(int(value), 1), or MetricNotFound for 404, 503
\* and 403, or the ApiException itself.
MetricUnavailableNo403(status) == status \in {404, 503}

MetricUnavailable(status) == status \in {404, 503, 403}

get_needed_replicas(metric_value_path, status) ==
    IF status = 200
    THEN [raised |-> "none", status |-> 200, value |-> Min(metric[metric_value_path], 1)]
    ELSE IF MetricUnavailable(status)
    THEN [raised |-> "MetricNotFound", status |-> status, value |-> 0]
    ELSE [raised |-> "ApiException", status |-> status, value |-> 0]

\* read_scale(namespace=hpa.namespace, name=hpa.name)
read_scale(h, status) ==
    IF status # 200 THEN [raised |-> "ApiException", status |-> status, value |-> 0]
    ELSE IF Scale(ReadWorkload(h)) = Absent
    THEN [raised |-> "ApiException", status |-> 404, value |-> 0]
    ELSE [raised |-> "none", status |-> 200, value |-> Scale(ReadWorkload(h))]

\* get_replicas: a 404 of read_scale is logged and then scale, which was
\* never bound, is read.
ScaleReadSwallowed(status) == status = 404

get_replicas(h, scale_status, metric_status) ==
    LET scale == read_scale(h, scale_status)
        needed == get_needed_replicas(h.metric_value_path, metric_status)
    IN
    IF scale.raised # "none" /\ ~ScaleReadSwallowed(scale.status)
    THEN [raised |-> "ApiException", status |-> scale.status, call |-> "scale",
          current |-> 0, needed |-> 0]
    ELSE IF scale.raised # "none"
    THEN [raised |-> "UnboundLocalError", status |-> scale.status, call |-> "scale",
          current |-> 0, needed |-> 0]
    ELSE [raised |-> needed.raised, status |-> needed.status, call |-> "metric",
          current |-> scale.value, needed |-> needed.value]

\* A scale-up predicate that also holds for a target that has replicas.
scaling_up_is_neededLoose(current_replicas, needed) ==
    current_replicas <= needed /\ needed = 1

scaling_up_is_needed(current_replicas, needed) ==
    current_replicas < needed /\ needed = 1

\* A scale-down predicate without the test of needed_replicas.
scaling_down_is_neededLoose(current_replicas, needed) ==
    current_replicas > needed

scaling_down_is_needed(current_replicas, needed) ==
    current_replicas > needed /\ needed = 0

\* A poll that never cancels.
PollCancelsNever(current_replicas, needed) == FALSE

\* A comparison of the counts themselves.
PollCancelsExact(current_replicas, needed) == current_replicas = needed

\* if bool(current_replicas) == bool(needed_replicas): the scale is canceled
PollCancels(current_replicas, needed) == Bool(current_replicas) = Bool(needed)

\* A stabilization loop entered whatever the window.
DebouncesAlways(stabilization_window) == TRUE

\* if stabilization_window != 0
Debounces(stabilization_window) == stabilization_window # 0

\* A loop that ends one time unit early.
WindowRunningShort == window_left > 1

\* while time() < stabilization_end_time
WindowRunning == window_left > 0

\* update_target's except clauses: MetricNotFound and a 404 end the
\* evaluation; anything else reaches _watch, which calls os._exit(1).
Caught(raised, status) ==
    \/ raised = "MetricNotFound"
    \/ raised = "ApiException" /\ status = 404

\* An except clause that ends the daemon thread alone.
FatalThreadOnly(raised) ==
    /\ rpc' = "exited"
    /\ exit_cause' = raised
    /\ UNCHANGED <<cluster_vars, alive, exit_code, scale_up_stabilization_window,
                   scale_down_stabilization_window, HPAs, watch_vars, snapshot, hpa,
                   needed_replicas, window_left, sleep_left, forgotten, stream_phase>>

\* _watch's except clause
Fatal(raised) ==
    /\ Exit(raised)
    /\ stream_phase' = "first"
    /\ UNCHANGED cluster_vars

\* Except clauses that also drop the HPA from the registry.
RaiseForgetting(raised, status, call, where) ==
    LET after == [NewEvaluation EXCEPT !.raised = raised, !.status = status,
                                       !.call = call, !.where = where]
    IN
    IF Caught(raised, status)
    THEN /\ ev' = [after EXCEPT !.outcome = IF raised = "MetricNotFound"
                                           THEN "unavailable" ELSE "skipped"]
         /\ rpc' = "next"
         /\ needed_replicas' = 0
         /\ window_left' = 0
         /\ HPAs' = DictPop(HPAs, hpa.name)
         /\ UNCHANGED <<cluster_vars, alive, exit_code, exit_cause,
                        scale_up_stabilization_window, scale_down_stabilization_window,
                        watch_vars, snapshot, hpa, sleep_left, forgotten, stream_phase>>
    ELSE /\ ev' = [after EXCEPT !.outcome = "fatal"]
         /\ Fatal(raised)

\* The evaluation ends in one of update_target's except clauses, or the
\* exception leaves update_target.
Raise(raised, status, call, where) ==
    LET after == [NewEvaluation EXCEPT !.raised = raised, !.status = status,
                                       !.call = call, !.where = where]
    IN
    IF Caught(raised, status)
    THEN /\ ev' = [after EXCEPT !.outcome = IF raised = "MetricNotFound"
                                           THEN "unavailable" ELSE "skipped"]
         /\ rpc' = "next"
         /\ needed_replicas' = 0
         /\ window_left' = 0
         /\ UNCHANGED <<cluster_vars, process_vars, watch_vars, snapshot, hpa,
                        sleep_left, forgotten, stream_phase>>
    ELSE /\ ev' = [after EXCEPT !.outcome = "fatal"]
         /\ Fatal(raised)

\* A pass that evaluates the first HPA of the registry alone.
LoopSnapshotFirstOnly ==
    /\ alive /\ rpc = "loop"
    /\ snapshot' = IF HPAs = <<>> THEN <<>> ELSE <<Head(HPAs)>>
    /\ rpc' = "next"
    /\ UNCHANGED <<cluster_vars, process_vars, watch_vars, hpa, needed_replicas,
                   window_left, sleep_left, history_vars>>

\* for hpa in list(HPAs.values())
LoopSnapshot ==
    /\ alive /\ rpc = "loop"
    /\ snapshot' = HPAs
    /\ rpc' = "next"
    /\ UNCHANGED <<cluster_vars, process_vars, watch_vars, hpa, needed_replicas,
                   window_left, sleep_left, history_vars>>

\* A loop that goes on to the next HPA while the stabilization loop sleeps.
LoopNextEager ==
    /\ alive /\ rpc \in {"next", "wait_sleep"}
    /\ IF snapshot = <<>>
       THEN /\ rpc' = "sleep"
            /\ sleep_left' = SYNC_INTERVAL
            /\ hpa' = NoHpa
            /\ ev' = NewEvaluation
            /\ UNCHANGED snapshot
       ELSE /\ rpc' = "update_target"
            /\ hpa' = Head(snapshot)
            /\ snapshot' = Tail(snapshot)
            /\ ev' = [NewEvaluation EXCEPT !.outcome = "running"]
            /\ UNCHANGED sleep_left
    /\ UNCHANGED <<cluster_vars, process_vars, watch_vars, needed_replicas,
                   window_left, forgotten, stream_phase>>

LoopNext ==
    /\ alive /\ rpc = "next"
    /\ IF snapshot = <<>>
       THEN /\ rpc' = "sleep"
            /\ sleep_left' = SYNC_INTERVAL
            /\ hpa' = NoHpa
            /\ ev' = NewEvaluation
            /\ UNCHANGED snapshot
       ELSE /\ rpc' = "update_target"
            /\ hpa' = Head(snapshot)
            /\ snapshot' = Tail(snapshot)
            /\ ev' = [NewEvaluation EXCEPT !.outcome = "running"]
            /\ UNCHANGED sleep_left
    /\ UNCHANGED <<cluster_vars, process_vars, watch_vars, needed_replicas,
                   window_left, forgotten, stream_phase>>

\* sleep(SYNC_INTERVAL) returns
LoopSleep ==
    /\ alive /\ rpc = "sleep" /\ sleep_left = 0
    /\ rpc' = "loop"
    /\ UNCHANGED <<cluster_vars, process_vars, watch_vars, snapshot, hpa,
                   needed_replicas, window_left, sleep_left, history_vars>>

\* update_target up to the stabilization wait of scaling_is_needed: the
\* match on target_kind, the first get_replicas and the choice of the window.
UpdateTarget(scale_status, metric_status) ==
    /\ alive /\ rpc = "update_target"
    /\ IF hpa.target_kind \notin SupportedKinds
       THEN /\ ev' = [NewEvaluation EXCEPT !.outcome = "fatal", !.raised = "ValueError",
                                            !.where = "match"]
            /\ Fatal("ValueError")
       ELSE LET got == get_replicas(hpa, scale_status, metric_status)
                up == scaling_up_is_needed(got.current, got.needed)
                down == scaling_down_is_needed(got.current, got.needed)
                stabilization_window ==
                    IF up THEN hpa.scale_up_stabilization_window
                    ELSE hpa.scale_down_stabilization_window
            IN
            IF got.raised # "none" THEN Raise(got.raised, got.status, got.call, "first")
            ELSE /\ IF ~up /\ ~down
                    THEN /\ rpc' = "no_need"
                         /\ window_left' = 0
                         /\ ev' = ev
                    ELSE /\ rpc' = IF Debounces(stabilization_window) THEN "wait" ELSE "apply_read"
                         /\ window_left' = stabilization_window
                         /\ ev' = [ev EXCEPT !.intent = IF up THEN "up" ELSE "down",
                                             !.window = stabilization_window]
                 /\ UNCHANGED <<cluster_vars, process_vars, watch_vars, snapshot, hpa,
                                needed_replicas, sleep_left, forgotten,
                                stream_phase>>

\* One turn of the stabilization loop: the window is over, or a poll.
Wait(scale_status, metric_status) ==
    /\ alive /\ rpc = "wait"
    /\ IF ~WindowRunning
       THEN /\ scale_status = 200 /\ metric_status = 200
            /\ rpc' = "apply_read"
            /\ UNCHANGED <<cluster_vars, process_vars, watch_vars, snapshot, hpa,
                           needed_replicas, window_left, sleep_left, history_vars>>
       ELSE LET got == get_replicas(hpa, scale_status, metric_status) IN
            IF got.raised # "none" THEN Raise(got.raised, got.status, got.call, "poll")
            ELSE /\ IF PollCancels(got.current, got.needed)
                    THEN /\ rpc' = "no_need"
                         /\ window_left' = 0
                         /\ sleep_left' = sleep_left
                         /\ ev' = [ev EXCEPT !.polls = 1, !.outcome = "canceled",
                                             !.eq_seen = @ \/ Bool(got.current) = Bool(got.needed),
                                             !.poll_eq = Bool(got.current) = Bool(got.needed)]
                    ELSE /\ rpc' = "wait_sleep"
                         /\ sleep_left' = STABILIZATION_CHECK_INTERVAL
                         /\ window_left' = window_left
                         /\ ev' = [ev EXCEPT !.polls = 1,
                                             !.eq_seen = @ \/ Bool(got.current) = Bool(got.needed),
                                             !.poll_eq = Bool(got.current) = Bool(got.needed)]
                 /\ UNCHANGED <<cluster_vars, process_vars, watch_vars, snapshot, hpa,
                                needed_replicas, forgotten, stream_phase>>

\* sleep(STABILIZATION_CHECK_INTERVAL) returns
WaitSleep ==
    /\ alive /\ rpc = "wait_sleep" /\ sleep_left = 0
    /\ rpc' = "wait"
    /\ UNCHANGED <<cluster_vars, process_vars, watch_vars, snapshot, hpa,
                   needed_replicas, window_left, sleep_left, history_vars>>

\* scale = read_scale(...) of update_target
ApplyRead(scale_status) ==
    /\ alive /\ rpc = "apply_read"
    /\ LET scale == read_scale(hpa, scale_status) IN
       IF scale.raised # "none" THEN Raise(scale.raised, scale.status, "scale", "reread")
       ELSE /\ rpc' = "apply_get"
            /\ UNCHANGED <<cluster_vars, process_vars, watch_vars, snapshot, hpa,
                           needed_replicas, window_left, sleep_left, history_vars>>

\* current_replicas, needed_replicas = get_replicas(...) before the patch
ApplyGet(scale_status, metric_status) ==
    /\ alive /\ rpc = "apply_get"
    /\ LET got == get_replicas(hpa, scale_status, metric_status) IN
       IF got.raised # "none" THEN Raise(got.raised, got.status, got.call, "again")
       ELSE /\ rpc' = "apply_patch"
            /\ needed_replicas' = got.needed
            /\ UNCHANGED <<cluster_vars, process_vars, watch_vars, snapshot, hpa,
                           window_left, sleep_left, history_vars>>

\* The API server's answer to a patch of the scale: 404 for a workload that
\* is not there, 422 for a negative replica count.
patch_scale(h, value, status) ==
    IF status # 200 THEN status
    ELSE IF Scale(ReadWorkload(h)) = Absent THEN 404
    ELSE IF value < 0 THEN 422
    ELSE 200

\* scale.spec.replicas = needed_replicas; patch_scale(..., body=scale)
ApplyPatch(patch_status) ==
    /\ alive /\ rpc = "apply_patch"
    /\ LET answer == patch_scale(hpa, needed_replicas, patch_status) IN
       IF answer # 200 THEN Raise("ApiException", answer, "patch", "patch")
       ELSE /\ replicas' = [replicas EXCEPT ![ReadWorkload(hpa)] = needed_replicas]
            /\ ev' = [ev EXCEPT !.outcome = "scaled",
                                !.patch = [workload |-> ReadWorkload(hpa),
                                           before |-> replicas[ReadWorkload(hpa)],
                                           to |-> needed_replicas]]
            /\ rpc' = "next"
            /\ needed_replicas' = 0
            /\ window_left' = 0
            /\ UNCHANGED <<hpa_objects, metric, process_vars, watch_vars, snapshot, hpa,
                           sleep_left, forgotten, stream_phase>>

\* update_target's else branch: get_replicas once more, for the log
NoNeed(scale_status, metric_status) ==
    /\ alive /\ rpc = "no_need"
    /\ LET got == get_replicas(hpa, scale_status, metric_status) IN
       IF got.raised # "none" THEN Raise(got.raised, got.status, got.call, "last")
       ELSE /\ rpc' = "next"
            /\ ev' = [ev EXCEPT !.outcome = IF ev.outcome = "canceled"
                                            THEN "canceled" ELSE "stable"]
            /\ UNCHANGED <<cluster_vars, process_vars, watch_vars, snapshot, hpa,
                           needed_replicas, window_left, sleep_left, forgotten, stream_phase>>

\* ------------------------------------------------------ the specification
ScaleStatuses == {200, 500}
MetricStatuses == {200, 404, 503, 403, 500}
StreamStatuses == {410, 500}
HpaReadStatuses == {200, 410, 500}

Watcher(stream_statuses, read_statuses) ==
    \/ \E status \in {200} \cup stream_statuses : WatchOpen(status)
    \/ \E status \in stream_statuses : WatchStreamError(status)
    \/ \E status \in read_statuses : WatchEvent(status)

Scaler(scale_statuses, metric_statuses) ==
    \/ LoopSnapshot
    \/ LoopNext
    \/ LoopSleep
    \/ \E s \in scale_statuses, m \in metric_statuses : UpdateTarget(s, m)
    \/ \E s \in scale_statuses, m \in metric_statuses : Wait(s, m)
    \/ WaitSleep
    \/ \E s \in scale_statuses : ApplyRead(s)
    \/ \E s \in scale_statuses, m \in metric_statuses : ApplyGet(s, m)
    \/ \E s \in scale_statuses : ApplyPatch(s)
    \/ \E s \in scale_statuses, m \in metric_statuses : NoNeed(s, m)

\* The HPA objects users apply: every shape of the annotation, shared out
\* between the two names.
HpaSpecs(n) ==
    {Hpa(a, "Deployment", n) :
        a \in IF n = "a" THEN {AnnValid, AnnTwo, AnnNone}
              ELSE {AnnValid, AnnSelector, AnnPod}}

HpaChurn ==
    \/ \E n \in Names : \E object \in HpaSpecs(n) : HpaApply(n, object)
    \/ \E n \in Names : HpaDelete(n)

WorkloadChurn ==
    \/ \E w \in Workloads, n \in {Absent} \cup 0..MaxReplicas : WorkloadSet(w, n)
    \/ \E s \in Services, v \in MetricValues : MetricSet(s, v)

\* The scaling loop against a changing metric and changing workloads, for a
\* population of HPAs that is there from the start.
Init == \E objects \in Populations : Start(objects, 0, Windows, Windows)

Next == Watcher({500}, {200, 500}) \/ Scaler(ScaleStatuses, MetricStatuses) \/ WorkloadChurn \/ Tick

Spec == Init /\ [][Next]_vars

\* The watcher against HPAs that come, change and go, with the workloads and
\* the metric left alone, for a process started with the default windows (0
\* and 0), whose scaling loop never enters the stabilization wait.
DiscoveryInit == Start([n \in Names |-> NoHpa], 0, {0}, {0})

DiscoveryScaler ==
    \/ LoopSnapshot
    \/ LoopNext
    \/ LoopSleep
    \/ UpdateTarget(200, 200)
    \/ ApplyRead(200)
    \/ ApplyGet(200, 200)
    \/ ApplyPatch(200)
    \/ NoNeed(200, 200)

DiscoveryNext == Watcher(StreamStatuses, HpaReadStatuses) \/ DiscoveryScaler \/ HpaChurn \/ Tick

DiscoverySpec == DiscoveryInit /\ [][DiscoveryNext]_vars

\* The scaling loop when no API call fails for a reason other than the state
\* of the cluster, and every thread and the clock keep running.
LiveWatcher == WatchOpen(200) \/ WatchEvent(200)

LiveScaler == Scaler({200}, {200})

LiveNext == LiveWatcher \/ LiveScaler \/ WorkloadChurn \/ Tick

LiveSpec ==
    /\ Init /\ [][LiveNext]_vars
    /\ WF_vars(LiveWatcher) /\ WF_vars(LiveScaler) /\ WF_vars(Tick)

\* The watcher against HPAs that come, change and go and a stream that
\* expires, when every thread and the clock keep running and no other API call
\* fails.
LiveDiscoveryNext ==
    LiveWatcher \/ WatchStreamError(410) \/ DiscoveryScaler \/ HpaChurn \/ Tick

LiveDiscoverySpec ==
    /\ DiscoveryInit /\ [][LiveDiscoveryNext]_vars
    /\ WF_vars(LiveWatcher) /\ WF_vars(DiscoveryScaler) /\ WF_vars(Tick)

\* ------------------------------------------------------------- properties
\* The workload an HPA of the registry is about: its scaleTargetRef.
Target(h) == <<h.target_kind, h.target_name>>

\* A tracked HPA whose metric is 0 while its target has replicas.
ScaleDownPending(n) ==
    /\ alive /\ n \in Keys(HPAs)
    /\ metric[Lookup(HPAs, n).metric_value_path] = 0
    /\ Scale(Target(Lookup(HPAs, n))) >= 1

\* A tracked HPA whose metric is 1 or more while its target has no replica.
ScaleUpPending(n) ==
    /\ alive /\ n \in Keys(HPAs)
    /\ metric[Lookup(HPAs, n).metric_value_path] >= 1
    /\ Scale(Target(Lookup(HPAs, n))) = 0

\* C1: for a tracked HPA, a metric that stays at 0 while the target has
\* replicas leads to a target with 0 replicas, and a metric that stays at 1 or
\* more while the target has 0 replicas leads to a target with a replica: no
\* such condition lasts for ever.
C1_ScalingHappens ==
    \A n \in Names : []<>(~ScaleDownPending(n)) /\ []<>(~ScaleUpPending(n))

\* The window of the HPA under evaluation for the direction it detected.
WindowInForce ==
    IF ev.intent = "up" THEN hpa.scale_up_stabilization_window
    ELSE hpa.scale_down_stabilization_window

\* The evaluation has left scaling_is_needed with True.
Confirmed == rpc \in {"apply_read", "apply_get", "apply_patch"} \/ ev.outcome = "scaled"

\* C2: with a window W > 0 for the direction of the change, an evaluation
\* confirms the scale, and patches, only once W time units have passed since
\* it detected the need; the window is the one stored with the HPA.
C2_PatchAfterWindow ==
    (ev.intent # "none" /\ hpa # NoHpa /\ Confirmed /\ WindowInForce > 0)
        => ev.since >= WindowInForce

C2_Witness ==
    /\ ev.outcome = "scaled" /\ ev.intent = "up"
    /\ hpa.scale_up_stabilization_window = MaxWindow
    /\ hpa.scale_down_stabilization_window = 0
    /\ ev.since = MaxWindow
    /\ ev.patch.before = 0 /\ ev.patch.to = 1

\* C3 as stated: an evaluation during whose window boolean(current replicas)
\* equalled boolean(desired replicas) at any moment issues no patch.
C3_AgreementAtAnyMomentCancels == ev.outcome = "scaled" => ~ev.eq_seen

\* C3: an evaluation one of whose polls read boolean(current replicas) equal
\* to boolean(desired replicas) leaves the wait without confirming the scale and
\* issues no patch.
C3_AgreementAtPollCancels ==
    ev.poll_eq => (alive /\ rpc \in {"no_need", "next"} /\ ev.patch = NoPatch)

C3_Witness ==
    /\ ev.poll_eq /\ ev.intent = "down" /\ ev.outcome = "canceled" /\ rpc = "next"
    /\ Scale(ReadWorkload(hpa)) = 2

\* C4: a scale read or a patch answered not-found ends the evaluation of that
\* HPA alone: nothing is patched and the process keeps running.
C4_TargetNotFoundSkips ==
    (ev.call \in {"scale", "patch"} /\ ev.status = 404)
        => (alive /\ ev.outcome = "skipped" /\ rpc = "next")

\* C5: a metric read answered 404, 503 or 403 (at the first read, at a poll, or
\* before the patch) ends the evaluation of that HPA alone: nothing is patched,
\* the HPA stays in the registry and the loop goes on to the next HPA.
C5_MetricUnavailableSkips ==
    (ev.call = "metric" /\ ev.status \in {404, 503, 403})
        => /\ alive /\ rpc = "next"
           /\ ev.outcome = "unavailable" /\ ev.patch = NoPatch
           /\ hpa.name \in Keys(HPAs)

C5_Witness ==
    /\ ev.call = "metric" /\ ev.status = 403 /\ ev.where = "again"
    /\ alive /\ snapshot # <<>>

\* The elements of an annotation that qualify: of type Object, without a
\* selector, about a Service.
Qualifying(annotation) ==
    {i \in 1..Len(annotation) :
        /\ annotation[i].type = "Object"
        /\ ~annotation[i].selector
        /\ annotation[i].kind = "Service"}

\* An annotation that resolves: exactly one qualifying element, and no Object
\* element with a selector or about something other than a Service.
Resolves(annotation) ==
    /\ Cardinality(Qualifying(annotation)) = 1
    /\ \A i \in 1..Len(annotation) :
          annotation[i].type = "Object" => i \in Qualifying(annotation)

\* C6: in every state the registry holds no entry for an HPA whose annotation
\* has 0 or 2 and more qualifying elements, a selector, or a target that is not
\* a Service.
C6_RegistryOnlyResolved ==
    \A n \in Keys(HPAs) :
        hpa_objects[n] # NoHpa => Resolves(hpa_objects[n].annotation)

\* C7: an annotation that fails resolution never ends the process.
C7_ResolutionFailureIsLocal ==
    exit_cause \in {"StopIteration", "AssertionError"} => alive

\* C8 as stated: once the watcher has processed a delete event for an HPA, the
\* registry, and so a snapshot taken of it, is without that HPA.
C8_DeleteEventForgets ==
    [][(/\ alive /\ wpc = "stream" /\ stream # <<>>
        /\ Head(stream).type = "DELETED"
        /\ alive' /\ wpc' = "stream" /\ stream' = Tail(stream))
            => Head(stream).name \notin Keys(HPAs')]_vars

\* C8: no snapshot of the registry holds an HPA whose last processed event
\* read it as not found.
C8_NotFoundForgets ==
    [][(rpc = "loop" /\ rpc' = "next") => Keys(snapshot') \cap forgotten' = {}]_vars

C8_Witness ==
    /\ rpc = "next" /\ ev.outcome = "idle"
    /\ "a" \in forgotten /\ Keys(snapshot) = {"b"} /\ Keys(HPAs) = {"b"}

\* C9: a stream that fails with 410 leaves the process running, the registry
\* as it is and the watcher about to open a new stream; a stream that fails
\* with anything else ends the process with exit code 1.
C9_GoneReopens ==
    [][/\ (stream_phase # "gone" /\ stream_phase' = "gone")
            => (alive' /\ wpc' = "open" /\ HPAs' = HPAs /\ rpc' = rpc)
       /\ (stream_phase # "failed" /\ stream_phase' = "failed")
            => (~alive' /\ exit_code' = 1 /\ wpc' = "exited" /\ rpc' = "exited")]_vars

C9_Witness == alive /\ stream_phase = "resumed" /\ Len(HPAs) = 2

\* An error of the scaling loop that is neither target-not-found nor
\* metric-unavailable.
FatalError ==
    \/ ev.raised = "ValueError"
    \/ ev.call \in {"scale", "patch"} /\ ev.status \notin {200, 404}
    \/ ev.call = "metric" /\ ev.status \notin {200, 404, 503, 403}

\* C10: such an error ends the whole process with exit code 1: the scaling
\* loop and the watcher are both over, and nothing of the process runs on.
C10_FatalEndsProcess ==
    /\ FatalError => (~alive /\ exit_code = 1 /\ rpc = "exited" /\ wpc = "exited")
    /\ ~alive => ~ENABLED Next

C10_Witness ==
    /\ ~alive /\ exit_code = 1
    /\ ev.call = "metric" /\ ev.status = 500 /\ ev.where = "poll"

\* What the scale read and the metric read of a step answer when neither
\* fails: the replicas of the workload read for the HPA under evaluation, and
\* the value of its metric.
ReadCurrent == Scale(ReadWorkload(hpa))

ReadMetric == metric[hpa.metric_value_path]

\* The desired replica count of a metric value.
Desired(v) == IF v >= 1 THEN 1 ELSE IF v = 0 THEN 0 ELSE v

\* update_target's first get_replicas returns, and scaling_is_needed decides.
FirstRead == rpc = "update_target" /\ rpc' \in {"no_need", "wait", "apply_read"}

\* The get_replicas before the patch returns.
ReadBeforePatch == rpc = "apply_get" /\ rpc' = "apply_patch"

\* The controller patches.
Patches == ev.outcome # "scaled" /\ ev'.outcome = "scaled"

C12_StableNeverPatches ==
    [][/\ (FirstRead /\ Bool(ReadCurrent) = Bool(Desired(ReadMetric))) =>
            (rpc' = "no_need" /\ ev'.intent = "none" /\ replicas' = replicas)
       /\ Patches => ev.intent # "none"
       /\ (ev.intent = "none" /\ rpc = "no_need" /\ alive') =>
            (rpc' \in {"no_need", "next"} /\ ev'.intent = "none")]_vars

C12_Witness ==
    /\ rpc = "next" /\ ev.outcome = "stable" /\ ev.intent = "none"
    /\ hpa.scale_up_stabilization_window = MaxWindow
    /\ hpa.scale_down_stabilization_window = MaxWindow
    /\ ReadCurrent = MaxReplicas /\ ReadMetric >= 1

\* update_target is called for the next HPA of the snapshot.
Starts == rpc # "update_target" /\ rpc' = "update_target"

\* C13: the evaluation of an HPA starts only once the previous one is over,
\* its stabilization wait and its patch included, with the head of what is left
\* of the snapshot; the HPA under evaluation changes at no other time.
C13_OneAtATime ==
    [][/\ Starts =>
            /\ rpc = "next" /\ window_left = 0 /\ ev.outcome # "running"
            /\ snapshot # <<>>
            /\ hpa' = Head(snapshot) /\ snapshot' = Tail(snapshot)
       /\ (hpa' # hpa /\ alive') => rpc = "next"
       /\ (Patches /\ ~Starts) => hpa' = hpa]_vars

C13_Witness ==
    /\ rpc = "update_target" /\ hpa.name = "b" /\ snapshot = <<>>
    /\ hpa.scale_down_stabilization_window = MaxWindow
    /\ replicas[<<"Deployment", "a">>] = 0 /\ replicas[<<"Deployment", "b">>] = 1
    /\ ReadMetric = 0

\* A poll of the stabilization loop returns.
Poll ==
    /\ rpc = "wait" /\ WindowRunning
    /\ rpc' # rpc /\ alive' /\ ev'.raised = "none"

\* C14: a poll that reads current and desired replicas equal in boolean terms
\* ends the wait at once, before the window is over, and that evaluation
\* issues no patch; the counts themselves need not be equal.
C14_PollCancels ==
    [][/\ (Poll /\ Bool(ReadCurrent) = Bool(Desired(ReadMetric))) =>
            /\ rpc' = "no_need" /\ window_left' = 0
            /\ ev'.outcome = "canceled" /\ ev'.since < ev'.window
            /\ replicas' = replicas
       /\ (ev.outcome = "canceled" /\ rpc = "no_need" /\ alive') =>
            rpc' \in {"no_need", "next"}
       /\ Patches => ev.outcome # "canceled"]_vars

C14_Witness ==
    /\ rpc = "no_need" /\ ev.outcome = "canceled" /\ ev.intent = "down"
    /\ ev.since < ev.window
    /\ ReadCurrent = MaxReplicas /\ Desired(ReadMetric) = 1

\* C15: with a window of 0 for the detected intent the evaluation goes
\* straight to the patch: it neither polls nor waits.
C15_NoWindowNoWait ==
    (ev.intent # "none" /\ hpa # NoHpa /\ WindowInForce = 0)
        => /\ ev.polls = 0 /\ ev.since = 0 /\ ev.window = 0
           /\ window_left = 0
           /\ rpc \in {"apply_read", "apply_get", "apply_patch", "next"}

C15_Witness ==
    /\ ev.outcome = "scaled" /\ ev.intent = "up" /\ ev.polls = 0
    /\ hpa.scale_up_stabilization_window = 0
    /\ hpa.scale_down_stabilization_window = MaxWindow

\* The registry holds an HPA that is not in the cluster.
Stale(n) == alive /\ n \in Keys(HPAs) /\ hpa_objects[n] = NoHpa

\* The registry is without an HPA that is in the cluster.
Missing(n) == alive /\ n \notin Keys(HPAs) /\ hpa_objects[n] # NoHpa

\* C16: unless the stream expires again and again for ever, the registry
\* converges to the HPAs of the cluster, also across a stream that expired and
\* was opened again: an HPA that is in the cluster gets into the registry and an
\* HPA that is gone from the cluster, deleted while no stream was open or not,
\* gets out of it.
C16_ReopenConverges ==
    \/ []<>(stream_phase = "gone")
    \/ \A n \in Names : (Missing(n) ~> ~Missing(n)) /\ (Stale(n) ~> ~Stale(n))

\* update_hpa returns for the event at the head of the stream.
EventProcessed ==
    /\ wpc = "stream" /\ stream # <<>>
    /\ wpc' = "stream" /\ stream' = Tail(stream)

\* C17: while the process runs the registry changes only when the watcher
\* processes an event, a step that leaves the scaling loop where it is; no
\* step of the scaling loop changes the registry.
C17_WatcherOwnsRegistry ==
    [][/\ (HPAs' # HPAs /\ alive') => (EventProcessed /\ loop_vars' = loop_vars)
       /\ (alive' /\ (loop_vars' # loop_vars \/ ev' # ev \/ replicas' # replicas))
            => HPAs' = HPAs]_vars

C17_Witness ==
    /\ alive /\ rpc = "next" /\ Len(HPAs) = 2
    /\ ev.outcome = "skipped" /\ ev.where = "reread" /\ ev.intent = "none"
    /\ hpa.name = "a"

\* C18: every patch sets the replicas of a workload to 0, or sets those of a
\* workload that has none to 1: no patch writes a negative count and none
\* lowers a workload from 2 or more replicas to 1.
C18_PatchToZeroOrZeroToOne ==
    ev.outcome = "scaled" =>
        \/ ev.patch.to = 0 /\ ev.patch.before >= 0
        \/ ev.patch.to = 1 /\ ev.patch.before = 0

\* C19 as stated: the HPA whose workload is patched is in the registry when
\* the patch is made.
C19_PatchOnlyTracked ==
    [][Patches => hpa.name \in Keys(HPAs)]_vars

\* C19: the HPA whose workload is patched comes from the snapshot the pass
\* took of the registry: the snapshot is the registry as it was when the pass
\* began, an evaluation takes its HPA from the head of the snapshot, and the
\* patch is made for the HPA under evaluation.
C19_PatchOnlySnapshotted ==
    [][/\ (rpc = "loop" /\ rpc' = "next") => snapshot' = HPAs
       /\ (snapshot' # snapshot /\ alive') =>
            \/ rpc = "loop" /\ rpc' = "next"
            \/ Starts /\ snapshot' = Tail(snapshot)
       /\ Starts => (snapshot # <<>> /\ hpa' = Head(snapshot))
       /\ (hpa' # hpa /\ alive') => rpc = "next"
       /\ Patches => (hpa # NoHpa /\ hpa' = hpa
                       /\ ev'.patch.workload = ReadWorkload(hpa))]_vars

C19_Witness ==
    /\ alive /\ ev.outcome = "scaled" /\ hpa.name = "a"
    /\ "a" \notin Keys(HPAs) /\ "a" \in forgotten
    /\ ev.patch.workload = <<"Deployment", "a">>

\* C20: every patch is addressed to the workload the HPA names as its scale
\* target.
C20_PatchAddressesTarget ==
    ev.outcome = "scaled" => ev.patch.workload = Target(hpa)

=============================================================================
